---- MODULE Spec2Model ----
(***************************************************************************)
(* A model of the CV chatbot backend (src/chatbot_backend/main.py): the    *)
(* in-memory session map conversation_chains, the /chat handler with its    *)
(* worker-thread chain call, the session endpoints, /health, the database   *)
(* pool and chat_logs, and the vector store's similarity search.            *)
(*                                                                         *)
(* Handlers are coroutines of one asyncio event loop: the code between two  *)
(* awaits runs without interleaving and is one action.  chain.invoke runs   *)
(* in a worker thread (asyncio.to_thread) and is split where it touches the *)
(* chain's memory: it reads the history, calls the retriever and the LLM,   *)
(* and then saves the exchange.                                             *)
(***************************************************************************)
EXTENDS Integers, Sequences, FiniteSets, TLC

\* ------------------------------------------------------------ bounds
\* number of /chat requests a behaviour of Spec sends
MaxRequests == 2
\* number of /chat requests a behaviour of SpecWindow sends to one session
MaxWindowRequests == 12
\* /chat requests that can be in flight at once
MaxInFlight == 2
\* last value of the clock read by datetime.utcnow()
MaxClock == 2

\* rows the cv_embeddings table can hold
MaxRows == 3

\* rows of cv_embeddings when the sources of a chat are extracted
MaxCvRows == 5

\* ------------------------------------------------------------ constants
\* similarity_search(query, k=4), and the retriever's search_kwargs {"k": 4}
DefaultK == 4
\* ConversationBufferWindowMemory(k=10)
MemoryWindowK == 10
\* ChatMessage.message: Field(..., min_length=1, max_length=1000)
MinMessageLength == 1
MaxMessageLength == 1000

VARIABLES
    started,              \* startup_event has run
    env_key,              \* os.getenv("OPENAI_API_KEY"): <<>> unset, <<v>> set to v
    conversation_chains,  \* dict: session id -> chain object (its number)
    memory,               \* memory[c]: chat_memory.messages of chain object c
    req,                  \* the /chat requests in flight, one record each
    issued,               \* /chat requests that entered the handler so far
    now,                  \* the last value datetime.utcnow() returned
    db_pool,              \* 0: None, n > 0: the n-th pool created
    pools_created,        \* calls of asyncpg.create_pool that returned a pool
    chat_logs,            \* the chat_logs table of the database: whether it exists, and its rows
    reply,                \* the reply the last step sent to a client, NoReply if it sent none
    received,             \* session ids of the /chat requests sent before any /reset-session
    reached,              \* session ids passed to get_conversation_chain since their last reset
    removed,              \* chain objects deleted from the map by /reset-session
    reset_seen,           \* a /reset-session request has been handled
    cv_embeddings,        \* the rows of the cv_embeddings table, in insertion order
    search                \* the result the last step's similarity_search returned, if any

vars == <<started, env_key, conversation_chains, memory, req, issued, now,
          db_pool, pools_created, chat_logs, reply, received, reached,
          removed, reset_seen, cv_embeddings, search>>

\* ------------------------------------------------------------ values
\* Optional[str]: <<>> is None (the field is absent), <<v>> is the string v
NoneValue == <<>>
Some(v) == <<v>>

\* session ids a client sends: an ordinary one, and one of the generated form
ClientIds == {"a", "session_1"}
GivenIds == {NoneValue, Some("")} \cup {Some(s) : s \in ClientIds}

\* lengths of the message field a client sends: empty, valid, too long
MessageLengths == {0, 1, MaxMessageLength + 1}

EnvKeys == {NoneValue, Some(""), Some("sk")}

NoReply == [endpoint |-> "none"]


\* values of the clock
Times == 1 .. MaxClock

\* embeddings: vectors of two integer coordinates, none of them zero
Vectors == {<<1, 0>>, <<2, 0>>, <<1, 1>>, <<-1, 1>>}
QueryVectors == {<<1, 0>>, <<1, 2>>}

NoSearch == [k |-> -1]

\* the "title" entry of a document's metadata: absent, or a string
Titles == {"A"}
TitleValues == {NoneValue} \cup {Some(x) : x \in Titles}

\* ------------------------------------------------------------ pure parts

Dot(a, b) == a[1] * b[1] + a[2] * b[2]

\* (a <=> q) < (b <=> q): the cosine distance 1 - a.q / (|a| |q|) of a to q
\* is smaller than that of b, compared exactly on the squares
CosineDistanceLess(a, b, q) ==
    LET x == Dot(a, q)
        y == Dot(b, q)
        na == Dot(a, a)
        nb == Dot(b, b)
    IN  IF x >= 0 /\ y < 0 THEN TRUE
        ELSE IF x < 0 /\ y >= 0 THEN FALSE
        ELSE IF x >= 0 THEN x * x * nb > y * y * na
        ELSE x * x * nb < y * y * na

\* an ORDER BY on the similarity column: the farthest row first
SortsBefore_BySimilarity(a, b, q) == CosineDistanceLess(b.embedding, a.embedding, q)

\* ORDER BY embedding <=> q: row a must come before row b
SortsBefore(a, b, q) == CosineDistanceLess(a.embedding, b.embedding, q)

\* ORDER BY ... LIMIT k over the rows with the indices in rest: every result
\* the database can return, rows of equal distance in either order
RECURSIVE OrderByLimit(_, _, _, _)
OrderByLimit(table, rest, q, k) ==
    IF k <= 0 \/ rest = {} THEN {<< >>}
    ELSE UNION {{<<table[i]>> \o s : s \in OrderByLimit(table, rest \ {i}, q, k - 1)} :
                  i \in {i \in rest : \A j \in rest : ~ SortsBefore(table[j], table[i], q)}}

\* cv_embeddings after add_texts: one row per text, with the next serial ids
RowsAfterAdd(table, embeddings) ==
    table \o [i \in 1 .. Len(embeddings) |->
                [id |-> Len(table) + i, embedding |-> embeddings[i]]]

\* cv_embeddings after add_texts with metadatas: the rows carry their title
RowsAfterAddMetadata(table, embeddings, metadatas) ==
    table \o [i \in 1 .. Len(embeddings) |->
                [id |-> Len(table) + i, embedding |-> embeddings[i],
                 title |-> metadatas[i]]]

\* doc.metadata.get("title", "CV Section")
TitleOf(title) == IF title = NoneValue THEN "CV Section" ELSE title[1]

\* the loop over result["source_documents"], from document i on
RECURSIVE SourcesLoop(_, _, _, _)
SourcesLoop(docs, i, sources, seen_titles) ==
    IF i > Len(docs) THEN sources
    ELSE IF TitleOf(docs[i]) \notin seen_titles
         THEN SourcesLoop(docs, i + 1, Append(sources, TitleOf(docs[i])),
                          seen_titles \cup {TitleOf(docs[i])})
         ELSE SourcesLoop(docs, i + 1, sources, seen_titles)

\* an extraction without the seen_titles test: one entry per document
ExtractSources_All(result) ==
    IF result = NoneValue THEN << >>
    ELSE [i \in 1 .. Len(result[1]) |-> TitleOf(result[1][i])]

\* the sources of a chain result: result is <<>> when it has no
\* "source_documents" key, else <<titles of the documents>>
ExtractSources(result) ==
    IF result = NoneValue THEN << >>
    ELSE SourcesLoop(result[1], 1, << >>, {})

\* ChatMessage validation of the message field (pydantic, before the handler)
MessageValid(len) == len >= MinMessageLength /\ len <= MaxMessageLength

\* f"session_{datetime.utcnow().timestamp()}"
GeneratedId(t) == "session_" \o ToString(t)

\* a resolution that generates an id only when the field is absent
ResolveSessionId_NoneOnly(given, t) ==
    IF given # NoneValue THEN given[1] ELSE GeneratedId(t)

\* message.session_id or f"session_{...}": None and "" are both falsy
ResolveSessionId(given, t) ==
    IF given # NoneValue /\ given[1] # "" THEN given[1] ELSE GeneratedId(t)

\* conversation_chains is a Python dict: the pairs <<key, value>> in insertion order
EmptyDict == << >>

Keys(d) == {d[i][1] : i \in 1 .. Len(d)}

\* key in d
Has(d, key) == \E i \in 1 .. Len(d) : d[i][1] = key

\* a lookup that ignores the key and returns the first entry's value
Get_First(d, key) == d[1][2]

\* d[key], for a key of d
Get(d, key) == d[CHOOSE i \in 1 .. Len(d) : d[i][1] = key][2]

\* d[key] = value: a present key keeps its place, a new key goes last
Put(d, key, value) ==
    IF Has(d, key)
    THEN [i \in 1 .. Len(d) |-> IF d[i][1] = key THEN <<key, value>> ELSE d[i]]
    ELSE Append(d, <<key, value>>)

\* a deletion with its test inverted: every entry but the one of the key goes
Del_OthersOnly(d, key) == SelectSeq(d, LAMBDA e : e[1] = key)

\* del d[key]
Del(d, key) == SelectSeq(d, LAMBDA e : e[1] # key)

\* list(d.keys())
KeyList(d) == [i \in 1 .. Len(d) |-> d[i][1]]

\* get_conversation_chain without its membership test: a chain is created
\* and stored on every call
ChainsAfterGet_AlwaysCreate(chains, session_id, new) ==
    Put(chains, session_id, new)

\* conversation_chains after get_conversation_chain(session_id): the chain is
\* created and stored only when the id is not in the map
ChainsAfterGet(chains, session_id, new) ==
    IF ~ Has(chains, session_id) THEN Put(chains, session_id, new) ELSE chains

\* reset_session clearing the whole map
ChainsAfterReset_ClearAll(chains, session_id) ==
    IF Has(chains, session_id) THEN EmptyDict ELSE chains

\* reset_session answering without deleting the entry
ChainsAfterReset_Keep(chains, session_id) == chains

\* conversation_chains after the reset_session handler
ChainsAfterReset(chains, session_id) ==
    IF Has(chains, session_id) THEN Del(chains, session_id) ELSE chains

\* the text of the reset_session reply
ResetMessage(chains, session_id) ==
    IF Has(chains, session_id)
    THEN <<"Session", session_id, "reset successfully">>
    ELSE <<"Session", session_id, "not found">>

\* a memory without a window (ConversationBufferMemory): every message
BufferWindow_Unbounded(messages, k) == messages

\* ConversationBufferWindowMemory.buffer: messages[-k * 2:]
BufferWindow(messages, k) ==
    IF Len(messages) <= 2 * k THEN messages
    ELSE SubSeq(messages, Len(messages) - 2 * k + 1, Len(messages))

\* save_context: the question and the answer are appended to the messages
SaveContext(messages, session_id, n) ==
    messages \o <<[role |-> "human", sid |-> session_id, n |-> n],
                  [role |-> "ai", sid |-> session_id, n |-> n]>>

\* a check that only asks whether the variable is set
KeyConfigured_NotNone(key) == key # NoneValue

\* assert os.getenv("OPENAI_API_KEY"): unset and "" are both falsy
KeyConfigured(key) == key # NoneValue /\ key[1] # ""

\* ------------------------------------------------------------ initial state
\* The module's globals after import; the environment (keys) and the database
\* (tables: whether chat_logs exists) are what the deployment provides.
InitEnv(keys, tables) ==
    /\ started = FALSE
    /\ env_key \in keys
    /\ conversation_chains = EmptyDict
    /\ memory = << >>
    /\ req = {}
    /\ issued = 0
    /\ now = 1
    /\ db_pool = 0
    /\ pools_created = 0
    /\ chat_logs \in {[exists |-> e, rows |-> {}] : e \in tables}
    /\ reply = NoReply
    /\ received = {}
    /\ reached = {}
    /\ removed = {}
    /\ reset_seen = FALSE
    /\ cv_embeddings = << >>
    /\ search = NoSearch

\* a deployment with its API key set and a database without chat_logs
Init == InitEnv({Some("sk")}, {FALSE})

\* any setting of OPENAI_API_KEY
InitHealth == InitEnv(EnvKeys, {FALSE})

\* a database with or without the chat_logs table
InitDb == InitEnv({Some("sk")}, BOOLEAN)


\* groups of variables
dbVars == <<db_pool, pools_created, chat_logs>>
envVars == <<started, env_key, now>>
sessionVars == <<conversation_chains, memory, req, issued>>
ghostVars == <<received, reached, removed, reset_seen>>
storeVars == <<cv_embeddings, search>>

\* ------------------------------------------------------------ startup

\* db_pool after init_db: unchanged when it is set; otherwise the new pool, or
\* still None when asyncpg.create_pool raises (pool_ok = FALSE)
PoolAfterInitDb(pool, created, pool_ok) ==
    IF pool # 0 THEN pool
    ELSE IF pool_ok THEN created + 1 ELSE 0

\* the number of pools created so far, after init_db
PoolsCreatedAfterInitDb(pool, created, pool_ok) ==
    IF pool # 0 THEN created
    ELSE IF pool_ok THEN created + 1 ELSE created

\* startup_event: the AI components are initialised (a failure there ends the
\* process), then init_db runs and its failure is logged and swallowed
startup_event(pool_ok) ==
    /\ ~ started
    /\ started' = TRUE
    /\ db_pool' = PoolAfterInitDb(db_pool, pools_created, pool_ok)
    /\ pools_created' = PoolsCreatedAfterInitDb(db_pool, pools_created, pool_ok)
    /\ reply' = NoReply
    /\ UNCHANGED <<storeVars, env_key, now, chat_logs, sessionVars, ghostVars>>

\* a later call of init_db
init_db(pool_ok) ==
    /\ started
    /\ db_pool' = PoolAfterInitDb(db_pool, pools_created, pool_ok)
    /\ pools_created' = PoolsCreatedAfterInitDb(db_pool, pools_created, pool_ok)
    /\ reply' = [endpoint |-> "init_db",
                 raised |-> (db_pool = 0 /\ ~ pool_ok),
                 pool_before |-> db_pool]
    /\ UNCHANGED <<storeVars, envVars, chat_logs, sessionVars, ghostVars>>

\* ------------------------------------------------------------ /chat

\* the session id a /chat request carries, if it carries a non-empty one
CarriedIds(given) ==
    IF given # NoneValue /\ given[1] # "" THEN {given[1]} ELSE {}

\* POST /chat with a message the ChatMessage model rejects: FastAPI answers 422
\* and chat_with_cv_bot is not called
chat_validation_error(given, len) ==
    /\ started
    /\ ~ MessageValid(len)
    /\ reply' = [endpoint |-> "chat", status |-> 422]
    /\ received' = IF reset_seen THEN received ELSE received \cup CarriedIds(given)
    /\ UNCHANGED <<storeVars, envVars, dbVars, sessionVars, reached, removed, reset_seen>>

\* the clock after the handler resolved the session id: it is read only when
\* the request carries no usable id, and it does not run backwards
ClockAfterResolve(given, last, t) ==
    IF given # NoneValue /\ given[1] # "" THEN last ELSE t

\* chat_with_cv_bot up to its first await: the session id is resolved (t is
\* what the clock returns if it is read), the chain is got or created, and
\* chain.invoke is handed to a worker thread.
chat_with_cv_bot(given, t, limit) ==
    /\ started
    /\ Cardinality(req) < MaxInFlight
    /\ issued < limit
    /\ t >= now
    /\ now' = ClockAfterResolve(given, now, t)
    /\ LET session_id == ResolveSessionId(given, t)
           new == Len(memory) + 1
           chains == ChainsAfterGet(conversation_chains, session_id, new)
       IN  /\ conversation_chains' = chains
           /\ memory' = IF chains # conversation_chains
                        THEN Append(memory, << >>) ELSE memory
           /\ req' = req \cup {[pc |-> "running", session_id |-> session_id,
                                 chain |-> Get(chains, session_id),
                                 n |-> issued + 1, history |-> << >>]}
           /\ received' = IF reset_seen THEN received
                          ELSE received \cup {session_id}
           /\ reached' = reached \cup {session_id}
    /\ issued' = issued + 1
    /\ reply' = NoReply
    /\ UNCHANGED <<storeVars, started, env_key, dbVars, removed, reset_seen>>

\* chain.invoke in the worker thread: the memory's window is loaded as chat_history
chain_invoke_load(r) ==
    /\ r \in req
    /\ r.pc = "running"
    /\ req' = (req \ {r}) \cup
               {[r EXCEPT !.pc = "loaded",
                          !.history = BufferWindow(memory[r.chain], MemoryWindowK)]}
    /\ reply' = NoReply
    /\ UNCHANGED <<storeVars, envVars, dbVars, conversation_chains, memory, issued, ghostVars>>

\* chain.invoke returns: the exchange is saved to the chain's memory
chain_invoke_return(r) ==
    /\ r \in req
    /\ r.pc = "loaded"
    /\ memory' = [memory EXCEPT ![r.chain] =
                    SaveContext(memory[r.chain], r.session_id, r.n)]
    /\ req' = (req \ {r}) \cup {[r EXCEPT !.pc = "returned"]}
    /\ reply' = NoReply
    /\ UNCHANGED <<storeVars, envVars, dbVars, conversation_chains, issued, ghostVars>>

\* chat_logs after log_interaction: no write without a pool; a failing INSERT
\* (no table, or insert_ok = FALSE) is logged and swallowed
RowsAfterLog(logs, pool, insert_ok, row) ==
    IF pool = 0 THEN logs
    ELSE IF logs.exists /\ insert_ok
         THEN [logs EXCEPT !.rows = logs.rows \cup {row}]
         ELSE logs

\* the HTTPException of the handler's except clause: 500 with
\* f"Failed to process chat message: {str(e)}"
FailureReply(r) ==
    [endpoint |-> "chat", status |-> 500, n |-> r.n,
     detail |-> <<"Failed to process chat message:", "error">>]

\* an except clause that persists the failed interaction before answering
chain_invoke_raise_Logged(r) ==
    /\ r \in req
    /\ r.pc = "loaded"
    /\ req' = req \ {r}
    /\ chat_logs' = RowsAfterLog(chat_logs, db_pool, TRUE,
                                 [session_id |-> r.session_id, n |-> r.n])
    /\ reply' = FailureReply(r)
    /\ UNCHANGED <<storeVars, envVars, db_pool, pools_created, conversation_chains,
                   memory, issued, ghostVars>>

\* an except clause that drops the session of the failed request
chain_invoke_raise_Cleanup(r) ==
    /\ r \in req
    /\ r.pc = "loaded"
    /\ req' = req \ {r}
    /\ conversation_chains' = ChainsAfterReset(conversation_chains, r.session_id)
    /\ reply' = FailureReply(r)
    /\ UNCHANGED <<storeVars, envVars, dbVars, memory, issued, ghostVars>>

\* chain.invoke raises (the retriever or the LLM call fails): nothing is saved,
\* the handler's except clause answers 500
chain_invoke_raise(r) ==
    /\ r \in req
    /\ r.pc = "loaded"
    /\ req' = req \ {r}
    /\ reply' = FailureReply(r)
    /\ UNCHANGED <<storeVars, envVars, dbVars, conversation_chains, memory, issued, ghostVars>>

\* the ChatResponse of a request
ChatResponse(r) ==
    [endpoint |-> "chat", status |-> 200, n |-> r.n,
     response |-> r.n, session_id |-> r.session_id,
     conversation_id |-> r.session_id, chain |-> r.chain]

\* a handler in which a failed database write fails the request
chat_respond_Strict(r, insert_ok) ==
    /\ r \in req
    /\ r.pc = "returned"
    /\ chat_logs' = RowsAfterLog(chat_logs, db_pool, insert_ok,
                                 [session_id |-> r.session_id, n |-> r.n])
    /\ req' = req \ {r}
    /\ reply' = IF db_pool # 0 /\ ~ (chat_logs.exists /\ insert_ok)
                THEN FailureReply(r) ELSE ChatResponse(r)
    /\ UNCHANGED <<storeVars, envVars, db_pool, pools_created, conversation_chains, memory,
                   issued, ghostVars>>

\* chat_with_cv_bot after chain.invoke returned: the interaction is logged and
\* the ChatResponse is returned
chat_respond(r, insert_ok) ==
    /\ r \in req
    /\ r.pc = "returned"
    /\ chat_logs' = RowsAfterLog(chat_logs, db_pool, insert_ok,
                                 [session_id |-> r.session_id, n |-> r.n])
    /\ req' = req \ {r}
    /\ reply' = ChatResponse(r)
    /\ UNCHANGED <<storeVars, envVars, db_pool, pools_created, conversation_chains, memory,
                   issued, ghostVars>>

\* ------------------------------------------------------------ vector store

\* CustomPGVector.add_texts: the texts are embedded and inserted
add_texts(embeddings) ==
    /\ Len(cv_embeddings) + Len(embeddings) <= MaxRows
    /\ cv_embeddings' = RowsAfterAdd(cv_embeddings, embeddings)
    /\ search' = NoSearch
    /\ UNCHANGED <<envVars, dbVars, sessionVars, ghostVars, reply>>

\* CustomPGVector.similarity_search(query, k): q is the query's embedding
similarity_search(q, k) ==
    /\ \E rows \in OrderByLimit(cv_embeddings, DOMAIN cv_embeddings, q, k) :
          search' = [k |-> k, query |-> q, documents |-> rows]
    /\ UNCHANGED <<envVars, dbVars, sessionVars, ghostVars, reply, cv_embeddings>>

\* add_texts with metadatas, as from_documents calls it
add_texts_with_metadata(embeddings, metadatas) ==
    /\ Len(cv_embeddings) + Len(embeddings) <= MaxCvRows
    /\ cv_embeddings' = RowsAfterAddMetadata(cv_embeddings, embeddings, metadatas)
    /\ search' = NoSearch
    /\ reply' = NoReply
    /\ UNCHANGED <<envVars, dbVars, sessionVars, ghostVars>>

\* the sources of a /chat answer: the chain's retriever searches with k = 4,
\* the chain returns the documents found as source_documents (with_documents;
\* a result without that key otherwise), and the handler extracts the titles
chat_sources(q, with_documents) ==
    /\ \E docs \in OrderByLimit(cv_embeddings, DOMAIN cv_embeddings, q, DefaultK) :
          LET result == IF with_documents
                        THEN Some([i \in 1 .. Len(docs) |-> docs[i].title])
                        ELSE NoneValue
          IN  reply' = [endpoint |-> "chat", status |-> 200,
                        source_documents |-> result,
                        sources |-> ExtractSources(result)]
    /\ search' = NoSearch
    /\ UNCHANGED <<envVars, dbVars, sessionVars, ghostVars, cv_embeddings>>

\* ------------------------------------------------------------ other endpoints

\* POST /reset-session?session_id=...
reset_session(session_id) ==
    /\ started
    /\ conversation_chains' = ChainsAfterReset(conversation_chains, session_id)
    /\ reply' = [endpoint |-> "reset-session", status |-> 200,
                 session_id |-> session_id,
                 message |-> ResetMessage(conversation_chains, session_id)]
    /\ removed' = IF Has(conversation_chains, session_id)
                  THEN removed \cup {Get(conversation_chains, session_id)}
                  ELSE removed
    /\ reached' = reached \ {session_id}
    /\ reset_seen' = TRUE
    /\ received' = {}
    /\ UNCHANGED <<storeVars, envVars, dbVars, memory, req, issued>>

\* the /active-sessions reply
ActiveSessionsReply(chains) ==
    [endpoint |-> "active-sessions", status |-> 200,
     active_sessions |-> KeyList(chains), count |-> Len(chains)]

\* GET /active-sessions
get_active_sessions ==
    /\ started
    /\ reply' = ActiveSessionsReply(conversation_chains)
    /\ UNCHANGED <<storeVars, envVars, dbVars, sessionVars, ghostVars>>

\* the /health reply
HealthReply(key) ==
    IF KeyConfigured(key)
    THEN [endpoint |-> "health", status |-> 200, body |-> "healthy",
          version |-> "2.0.0"]
    ELSE [endpoint |-> "health", status |-> 503,
          detail |-> "OpenAI API key not configured"]

\* GET /health
health_check ==
    /\ started
    /\ reply' = HealthReply(env_key)
    /\ UNCHANGED <<storeVars, envVars, dbVars, sessionVars, ghostVars>>

\* GET /
root ==
    /\ started
    /\ reply' = [endpoint |-> "root", status |-> 200, version |-> "2.0.0"]
    /\ UNCHANGED <<storeVars, envVars, dbVars, sessionVars, ghostVars>>

\* GET /sample-questions
get_sample_questions ==
    /\ started
    /\ reply' = [endpoint |-> "sample-questions", status |-> 200]
    /\ UNCHANGED <<storeVars, envVars, dbVars, sessionVars, ghostVars>>

\* ------------------------------------------------------------ specification
\* The session endpoints of a server whose database is unreachable: every
\* interleaving of /chat requests, resets and the read-only endpoints.
Next ==
    \/ startup_event(FALSE)
    \/ \E given \in GivenIds, len \in MessageLengths : chat_validation_error(given, len)
    \/ \E given \in GivenIds, t \in Times : chat_with_cv_bot(given, t, MaxRequests)
    \/ \E r \in req : chain_invoke_load(r)
    \/ \E r \in req : chain_invoke_return(r)
    \/ \E r \in req : chain_invoke_raise(r)
    \/ \E r \in req : chat_respond(r, TRUE)
    \/ \E s \in ClientIds \cup Keys(conversation_chains) : reset_session(s)
    \/ get_active_sessions
    \/ health_check
    \/ root
    \/ get_sample_questions

Spec == Init /\ [][Next]_vars

\* One long conversation, as test_conversation_flow holds it: a client sends
\* more questions on a single session than the memory window holds, each after
\* the answer to the one before; any of the chain calls may fail.
NextWindow ==
    \/ startup_event(FALSE)
    \/ req = {} /\ chat_with_cv_bot(Some("a"), now, MaxWindowRequests)
    \/ \E r \in req : chain_invoke_load(r)
    \/ \E r \in req : chain_invoke_return(r)
    \/ \E r \in req : chain_invoke_raise(r)
    \/ \E r \in req : chat_respond(r, TRUE)

SpecWindow == Init /\ [][NextWindow]_vars

\* The vector store alone: texts are added one or two at a time and the table
\* is searched with any k up to the default.
NextSearch ==
    \/ \E e \in Vectors : add_texts(<<e>>)
    \/ \E e1, e2 \in Vectors : add_texts(<<e1, e2>>)
    \/ \E q \in QueryVectors, k \in 0 .. DefaultK : similarity_search(q, k)

SpecSearch == Init /\ [][NextSearch]_vars

\* /health under every setting of the key, among chats and resets of a session
NextHealth ==
    \/ startup_event(FALSE)
    \/ \E given \in {NoneValue, Some("a")} : chat_with_cv_bot(given, now, MaxRequests)
    \/ \E r \in req : chain_invoke_load(r)
    \/ \E r \in req : chain_invoke_return(r)
    \/ \E r \in req : chain_invoke_raise(r)
    \/ \E r \in req : chat_respond(r, TRUE)
    \/ \E s \in Keys(conversation_chains) : reset_session(s)
    \/ health_check
    \/ root
    \/ get_sample_questions

SpecHealth == InitHealth /\ [][NextHealth]_vars

\* The database side: init_db at startup and later, against a database with or
\* without chat_logs, and the logging of the chats of one session.
NextDb ==
    \/ \E ok \in BOOLEAN : startup_event(ok)
    \/ \E ok \in BOOLEAN : init_db(ok)
    \/ chat_with_cv_bot(Some("a"), now, MaxRequests)
    \/ \E r \in req : chain_invoke_load(r)
    \/ \E r \in req : chain_invoke_return(r)
    \/ \E r \in req : chain_invoke_raise(r)
    \/ \E r \in req, ok \in BOOLEAN : chat_respond(r, ok)

SpecDb == InitDb /\ [][NextDb]_vars

\* Failing chats on a server with or without a database pool: chats on a
\* given and on a generated session, any of whose chain calls may raise, and
\* the list of the active sessions.
NextError ==
    \/ \E ok \in BOOLEAN : startup_event(ok)
    \/ \E given \in {NoneValue, Some("a")} : chat_with_cv_bot(given, now, MaxRequests)
    \/ \E r \in req : chain_invoke_load(r)
    \/ \E r \in req : chain_invoke_return(r)
    \/ \E r \in req : chain_invoke_raise(r)
    \/ \E r \in req, ok \in BOOLEAN : chat_respond(r, ok)
    \/ get_active_sessions

SpecError == InitDb /\ [][NextError]_vars

\* The sources of an answer: documents with or without a title are added one
\* at a time, all at the same distance from the query, so that the search may
\* return them in any order, and the sources of a chat are extracted.
NextSources ==
    \/ \E title \in TitleValues : add_texts_with_metadata(<<<<1, 0>>>>, <<title>>)
    \/ \E with_documents \in BOOLEAN : chat_sources(<<1, 0>>, with_documents)

SpecSources == Init /\ [][NextSources]_vars

\* ------------------------------------------------------------ claims

\* the chain objects stored in the map
ChainsInMap == {conversation_chains[i][2] : i \in 1 .. Len(conversation_chains)}

\* a request in flight uses the chain stored under its session id, unless a
\* reset removed that chain after the request got it
C1_InFlightUsesStoredChain ==
    \A r \in req :
        \/ /\ Has(conversation_chains, r.session_id)
           /\ Get(conversation_chains, r.session_id) = r.chain
        \/ r.chain \in removed

\* no key twice, no chain under two keys, and every chain ever created is
\* either the one stored under its session or one a reset removed
C1_OneChainPerSession ==
    /\ \A i, j \in 1 .. Len(conversation_chains) :
          (\/ conversation_chains[i][1] = conversation_chains[j][1]
           \/ conversation_chains[i][2] = conversation_chains[j][2]) => i = j
    /\ ChainsInMap \cup removed = 1 .. Len(memory)
    /\ ChainsInMap \cap removed = {}

\* a session that stays in the map keeps its chain
C1_NeverReplaced ==
    \A s \in Keys(conversation_chains) :
        Has(conversation_chains', s) =>
            Get(conversation_chains', s) = Get(conversation_chains, s)

\* C1: get_conversation_chain is get-or-create: a session's first chat creates
\* one chain and stores it under the id, every later chat on the id, in any
\* interleaving, uses that chain until a reset removes it, and a stored chain
\* is never replaced while its id stays in the map.
C1_GetOrCreate ==
    /\ [](C1_InFlightUsesStoredChain /\ C1_OneChainPerSession)
    /\ [][C1_NeverReplaced]_vars

\* two requests in flight on one session share one chain
C1_Witness ==
    \E r1, r2 \in req :
        /\ r1.n # r2.n
        /\ r1.session_id = r2.session_id
        /\ r1.chain = r2.chain
        /\ Has(conversation_chains, r1.session_id)

\* C2 as stated: with no reset, the map holds one session per distinct session
\* id of the /chat requests sent, successful or failed.
C2_Original ==
    ~ reset_seen => Len(conversation_chains) = Cardinality(received)

\* an entry leaves the map only in the step of a reset naming its id
C2_RemovedOnlyByReset ==
    \A s \in Keys(conversation_chains) :
        ~ Has(conversation_chains', s) =>
            /\ reply'.endpoint = "reset-session"
            /\ reply'.session_id = s

\* C2, amended: an entry is removed only by a /reset-session naming its id,
\* and with no reset the map holds one session per distinct session id of the
\* /chat requests that passed validation, whether their chain call succeeded
\* or failed; a request rejected by validation adds no session.
C2_NoEviction ==
    /\ [](~ reset_seen => Len(conversation_chains) = Cardinality(reached))
    /\ [][C2_RemovedOnlyByReset]_vars

\* two sessions from two requests, the last of which failed
C2_Witness ==
    /\ ~ reset_seen
    /\ issued = 2
    /\ Len(conversation_chains) = 2
    /\ reply.endpoint = "chat"
    /\ reply.status = 500

\* what a step that sends a /reset-session reply does
C3_ResetStep ==
    reply'.endpoint = "reset-session" =>
        LET s == reply'.session_id
        IN  /\ reply'.status = 200
            /\ IF Has(conversation_chains, s)
               THEN /\ ~ Has(conversation_chains', s)
                    /\ reply'.message = <<"Session", s, "reset successfully">>
               ELSE /\ conversation_chains' = conversation_chains
                    /\ reply'.message = <<"Session", s, "not found">>
            /\ \A u \in Keys(conversation_chains) \ {s} :
                  /\ Has(conversation_chains', u)
                  /\ Get(conversation_chains', u) = Get(conversation_chains, u)
            /\ Keys(conversation_chains') \subseteq Keys(conversation_chains)
            /\ memory' = memory

\* C3: /reset-session on s removes s and answers 'Session s reset
\* successfully' when s is in the map, leaves the map unchanged and answers
\* 'Session s not found' when it is not, answers 200 in both cases, and leaves
\* every other session in the map with its chain.
C3_ResetFrame == [][C3_ResetStep]_vars

\* a reset that removed a session while another one stays
C3_Witness ==
    /\ reply.endpoint = "reset-session"
    /\ reply.message[3] = "reset successfully"
    /\ Len(conversation_chains) >= 1

\* the /active-sessions reply lists the keys of the map, once each
C4_ReplyListsKeys ==
    reply.endpoint = "active-sessions" =>
        /\ {reply.active_sessions[i] : i \in 1 .. Len(reply.active_sessions)}
              = Keys(conversation_chains)
        /\ reply.count = Len(reply.active_sessions)
        /\ reply.count = Cardinality(Keys(conversation_chains))

\* C4: /active-sessions returns exactly the keys of conversation_chains with
\* count the length of the list and does not change the map, and in every
\* reachable state the keys are the session ids a /chat request passed to
\* get_conversation_chain since the id's last reset.
C4_ActiveSessions ==
    /\ [](Keys(conversation_chains) = reached /\ C4_ReplyListsKeys)
    /\ [][reply'.endpoint = "active-sessions" =>
             /\ conversation_chains' = conversation_chains
             /\ memory' = memory]_vars

\* the list after one of two sessions was reset
C4_Witness ==
    /\ reply.endpoint = "active-sessions"
    /\ reply.count = 1
    /\ reset_seen
    /\ issued = 2

\* the request a chat_with_cv_bot step put in flight
NewRequest == CHOOSE r \in req' \ req : TRUE

C5_BeginStep ==
    \A g \in GivenIds, t \in Times :
        chat_with_cv_bot(g, t, MaxRequests) =>
            /\ g \in {Some(s) : s \in ClientIds} => NewRequest.session_id = g[1]
            /\ g \in {NoneValue, Some("")} =>
                  NewRequest.session_id = "session_" \o ToString(t)
            /\ Has(conversation_chains', NewRequest.session_id)
            /\ Get(conversation_chains', NewRequest.session_id) = NewRequest.chain

\* the response's ids are those of the request it answers
C5_RespondStep ==
    \A r \in req :
        (reply'.endpoint = "chat" /\ reply'.status = 200 /\ reply'.n = r.n) =>
            /\ r.pc = "returned"
            /\ reply'.session_id = r.session_id
            /\ reply'.chain = r.chain

\* a 200 response has equal ids, and its exchange is in the memory of the
\* chain the request got
C5_ResponseRecorded ==
    (reply.endpoint = "chat" /\ reply.status = 200) =>
        /\ reply.session_id = reply.conversation_id
        /\ \E i \in 1 .. Len(memory[reply.chain]) - 1 :
              /\ memory[reply.chain][i] =
                    [role |-> "human", sid |-> reply.session_id, n |-> reply.n]
              /\ memory[reply.chain][i + 1] =
                    [role |-> "ai", sid |-> reply.session_id, n |-> reply.n]

IsExchanges(h) ==
    /\ Len(h) % 2 = 0
    /\ \A j \in 1 .. Len(h) \div 2 :
          /\ h[2 * j - 1].role = "human"
          /\ h[2 * j].role = "ai"
          /\ h[2 * j - 1].n = h[2 * j].n

\* a loaded history is at most MemoryWindowK whole exchanges, all of the
\* request's session, that stand in this order in the chain's memory
C6_HistoryBounded ==
    \A r \in req :
        /\ Len(r.history) <= 2 * 10
        /\ IsExchanges(r.history)
        /\ \A i \in 1 .. Len(r.history) : r.history[i].sid = r.session_id
        /\ \E off \in 0 .. Len(memory[r.chain]) :
              \A i \in 1 .. Len(r.history) :
                  /\ off + i <= Len(memory[r.chain])
                  /\ memory[r.chain][off + i] = r.history[i]

\* the step that loads the history takes the last 10 exchanges of the memory,
\* or all of them when there are fewer
C6_LoadsLastTen ==
    \A r \in req :
        (r.pc = "running" /\ r \notin req') =>
            \E l \in req' :
                LET m == memory[r.chain]
                    h == l.history
                IN  /\ l.n = r.n
                    /\ l.pc = "loaded"
                    /\ Len(h) = IF Len(m) \div 2 <= 10 THEN Len(m) ELSE 2 * 10
                    /\ \A i \in 1 .. Len(h) : h[i] = m[Len(m) - Len(h) + i]

\* C6: the memory window is the fixed integer 10: the chat history supplied
\* to the chain for a question is at most the last 10 question/answer
\* exchanges of the session's chain, in the order they happened, and older
\* exchanges are dropped.
C6_MemoryWindow ==
    /\ []C6_HistoryBounded
    /\ [][C6_LoadsLastTen]_vars

\* a question asked after 11 exchanges is given the last 10 of them
C6_Witness ==
    \E r \in req :
        /\ r.pc = "loaded"
        /\ Len(memory[r.chain]) = 22
        /\ Len(r.history) = 20
        /\ r.history[1] = memory[r.chain][3]

\* the history a request loaded holds only messages of its own session
C10_HistoryOfOwnSession ==
    \A r \in req :
        \A i \in 1 .. Len(r.history) : r.history[i].sid = r.session_id

\* a stored chain's memory holds only messages of its session, and no chain's
\* memory mixes sessions
C10_MemoryOfOwnSession ==
    /\ \A i \in 1 .. Len(conversation_chains) :
          \A j \in 1 .. Len(memory[conversation_chains[i][2]]) :
              memory[conversation_chains[i][2]][j].sid = conversation_chains[i][1]
    /\ \A c \in 1 .. Len(memory) :
          \A j, k \in 1 .. Len(memory[c]) : memory[c][j].sid = memory[c][k].sid

\* a step changes the memory of at most one chain, by appending the exchange
\* of a request that holds that chain
C10_AppendsToOwnChain ==
    \A c \in 1 .. Len(memory) :
        memory'[c] # memory[c] =>
            /\ \E r \in req :
                  /\ r.pc = "loaded"
                  /\ r.chain = c
                  /\ memory'[c] = memory[c] \o
                        <<[role |-> "human", sid |-> r.session_id, n |-> r.n],
                          [role |-> "ai", sid |-> r.session_id, n |-> r.n]>>
            /\ \A d \in 1 .. Len(memory) : d # c => memory'[d] = memory[d]

\* C10: sessions are isolated: a /chat on s appends its exchange only to the
\* memory of s's chain and leaves every other session's history unchanged
\* under any interleaving, and the history used to answer a question on s
\* holds only exchanges of s.
C10_SessionsIsolated ==
    /\ [](C10_HistoryOfOwnSession /\ C10_MemoryOfOwnSession)
    /\ [][C10_AppendsToOwnChain]_vars

\* two sessions, each with an exchange in its own memory
C10_Witness ==
    /\ Len(conversation_chains) = 2
    /\ \A i \in 1 .. 2 : Len(memory[conversation_chains[i][2]]) = 2

\* the distances of a search result do not decrease along the list
C7_Ordered ==
    \A i \in 1 .. Len(search.documents) - 1 :
        ~ CosineDistanceLess(search.documents[i + 1].embedding,
                             search.documents[i].embedding, search.query)

\* the result holds min(k, rows) different rows of the table as it is now, and
\* no row left out is strictly closer to the query than a row returned
C7_Nearest ==
    LET docs == search.documents
        n == Len(cv_embeddings)
    IN  /\ Len(docs) = IF search.k <= n THEN search.k ELSE n
        /\ \A i \in 1 .. Len(docs) :
              /\ docs[i].id \in 1 .. n
              /\ cv_embeddings[docs[i].id] = docs[i]
        /\ \A i, j \in 1 .. Len(docs) : docs[i].id = docs[j].id => i = j
        /\ \A r \in 1 .. n :
              (\A i \in 1 .. Len(docs) : docs[i].id # r) =>
                  \A i \in 1 .. Len(docs) :
                      ~ CosineDistanceLess(cv_embeddings[r].embedding,
                                           docs[i].embedding, search.query)

\* C7: similarity_search(query, k) is a nearest-neighbour search over
\* cv_embeddings: it returns min(k, number of rows) documents in order of
\* non-decreasing cosine distance to the query, no row left out is strictly
\* closer than a row returned, it reads the table as it is now and it does
\* not modify the table.
C7_SimilaritySearch ==
    /\ [](search # NoSearch => C7_Ordered /\ C7_Nearest)
    /\ [][search' # NoSearch => cv_embeddings' = cv_embeddings]_vars

\* a search with k = 2 over three rows that leaves the farthest row out
C7_Witness ==
    /\ search # NoSearch
    /\ search.k = 2
    /\ Len(cv_embeddings) = 3
    /\ Len(search.documents) = 2
    /\ \E r \in 1 .. 3 :
          CosineDistanceLess(search.documents[2].embedding,
                             cv_embeddings[r].embedding, search.query)

\* the /health reply tells whether the key is set to a non-empty value
C8_ReplyTellsKey ==
    reply.endpoint = "health" =>
        IF env_key \notin {NoneValue, Some("")}
        THEN /\ reply.status = 200
             /\ reply.body = "healthy"
             /\ reply.version = "2.0.0"
        ELSE /\ reply.status = 503
             /\ reply.detail = "OpenAI API key not configured"

\* C8: /health answers 200 with status 'healthy' and version '2.0.0' when
\* OPENAI_API_KEY is set to a non-empty value and 503 with the failure text as
\* detail otherwise, and it changes neither the session map nor any other
\* server state.
C8_Health ==
    /\ []C8_ReplyTellsKey
    /\ [][reply'.endpoint = "health" =>
             UNCHANGED <<envVars, dbVars, sessionVars, storeVars>>]_vars

\* /health answering 503 for a key set to the empty string, a session being open
C8_Witness ==
    /\ reply.endpoint = "health"
    /\ reply.status = 503
    /\ env_key = Some("")
    /\ Len(conversation_chains) >= 1

\* C9: after init_db returned without error db_pool is set and the chat_logs
\* table exists, so that a following log_interaction insert does not fail for
\* lack of the table; a call with db_pool already set creates no second pool.
C9_InitDbEnsuresTable ==
    /\ db_pool # 0 => chat_logs.exists
    /\ (reply.endpoint = "init_db" /\ ~ reply.raised) => db_pool # 0
    /\ pools_created <= 1

\* C11: a /chat request sent without a session_id starts a new conversation:
\* the generated id is not a key of conversation_chains when it is generated,
\* and the request shares its chain with no other request in flight and with
\* no session already in the map.
C11_GeneratedIdIsFresh ==
    [][\A t \in Times :
          chat_with_cv_bot(NoneValue, t, MaxRequests) =>
              /\ ~ Has(conversation_chains, GeneratedId(t))
              /\ \A r \in req : r.chain # NewRequest.chain
              /\ NewRequest.chain \notin ChainsInMap]_vars

\* the messages a chain removed by a reset holds, whenever they were saved
MessagesOfRemoved ==
    UNION {{memory[d][j] : j \in 1 .. Len(memory[d])} : d \in removed}

\* no chain removed by a reset is in the map, and neither the memory of a
\* stored chain nor the history loaded by a request on a chain that was not
\* removed holds a message of a removed chain
C12_NothingOfRemovedChains ==
    /\ ChainsInMap \cap removed = {}
    /\ \A c \in ChainsInMap :
          \A j \in 1 .. Len(memory[c]) : memory[c][j] \notin MessagesOfRemoved
    /\ \A r \in req :
          r.chain \notin removed =>
              \A i \in 1 .. Len(r.history) : r.history[i] \notin MessagesOfRemoved

\* a /chat that finds its session absent from the map gets a chain that did
\* not exist before, with empty memory
C12_ChatCreatesEmptyChain ==
    (issued' # issued /\ ~ Has(conversation_chains, NewRequest.session_id)) =>
        /\ NewRequest.chain \notin 1 .. Len(memory)
        /\ NewRequest.chain \notin removed
        /\ memory'[NewRequest.chain] = << >>

\* a request that saves its exchange to a removed chain changes the memory of
\* no stored chain
C12_CompletesAgainstRemoved ==
    \A d \in removed :
        memory'[d] # memory[d] =>
            \A c \in ChainsInMap : memory'[c] = memory[c]

\* C12: after /reset-session answered 'reset successfully' for s, s is not in
\* the map, so the next /chat on s gets a newly created chain with empty
\* history, and no later chat on s observes an exchange made before the reset;
\* a /chat on s in flight during the reset completes against the removed
\* chain, and its exchange is not visible to chats started after the reset.
C12_ResetStartsAfresh ==
    /\ []C12_NothingOfRemovedChains
    /\ [][/\ (reply'.endpoint = "reset-session"
                /\ reply'.message[3] = "reset successfully") =>
                   ~ Has(conversation_chains', reply'.session_id)
          /\ C12_ChatCreatesEmptyChain
          /\ C12_CompletesAgainstRemoved]_vars

\* a chat begun after the reset of its session has loaded an empty history
\* from its new chain, while a request that was in flight at the reset has
\* saved its exchange to the removed chain
C12_Witness ==
    \E r1, r2 \in req :
        /\ r1.session_id = r2.session_id
        /\ r1.chain \in removed
        /\ r1.pc = "returned"
        /\ Len(memory[r1.chain]) = 2
        /\ r2.chain \in ChainsInMap
        /\ r2.pc = "loaded"
        /\ r2.history = << >>

\* a step that answers a /chat request with 500: the request was in its chain
\* call, the detail is the handler's text, and the step writes no row and
\* leaves the map, with the request's session in it, and every memory as they were
C13_FailureStep ==
    \A r \in req :
        (reply'.endpoint = "chat" /\ reply'.status = 500 /\ reply'.n = r.n) =>
            /\ r.pc = "loaded"
            /\ reply'.detail[1] = "Failed to process chat message:"
            /\ chat_logs' = chat_logs
            /\ conversation_chains' = conversation_chains
            /\ Has(conversation_chains', r.session_id)
            /\ Get(conversation_chains', r.session_id) = r.chain
            /\ memory' = memory

\* a request whose chain call raised leaves the handler in that step with 500
C13_RaiseAnswers500 ==
    \A r \in req :
        (r.pc = "loaded" /\ \A l \in req' : l.n # r.n) =>
            /\ reply'.endpoint = "chat"
            /\ reply'.status = 500
            /\ reply'.n = r.n

\* a row is written only by the step that answers its request with 200
C13_RowsOnlyWith200 ==
    \A row \in chat_logs'.rows \ chat_logs.rows :
        /\ reply'.endpoint = "chat"
        /\ reply'.status = 200
        /\ reply'.n = row.n

C14_RespondStep ==
    \A r \in req :
        (r.pc = "returned" /\ r \notin req') =>
            /\ reply'.endpoint = "chat"
            /\ reply'.status = 200
            /\ reply'.n = r.n
            /\ reply'.response = r.n
            /\ reply'.session_id = r.session_id
            /\ chat_logs'.exists = chat_logs.exists
            /\ chat_logs.rows \subseteq chat_logs'.rows
            /\ chat_logs'.rows \subseteq
                  chat_logs.rows \cup {[session_id |-> r.session_id, n |-> r.n]}
            /\ (db_pool = 0 \/ ~ chat_logs.exists) => chat_logs' = chat_logs
            /\ UNCHANGED <<db_pool, pools_created, conversation_chains, memory>>

\* chat_logs changes in no other step
C14_OnlyRespondWrites ==
    chat_logs' # chat_logs =>
        \E r \in req : r.pc = "returned" /\ r \notin req'

\* a row is the row of a request whose answer was produced: its exchange is
\* in the memory of a chain, the request is no longer in the handler, and no
\* request has two rows
C14_RowsOfAnswered ==
    \A row \in chat_logs.rows :
        /\ \E c \in 1 .. Len(memory) : \E j \in 1 .. Len(memory[c]) :
              memory[c][j] = [role |-> "ai", sid |-> row.session_id, n |-> row.n]
        /\ \A r \in req : r.n # row.n
        /\ \A other \in chat_logs.rows : other.n = row.n => other = row

\* C14: database logging is best-effort: a /chat request whose chain call
\* succeeded logs its interaction once, after the answer is produced and
\* before the response is returned; without a pool nothing is written, and a
\* failing INSERT is swallowed, so the request still returns 200 with the answer.
C14_BestEffortLogging ==
    /\ [](C14_RowsOfAnswered /\ (db_pool = 0 => chat_logs.rows = {}))
    /\ [][C14_RespondStep /\ C14_OnlyRespondWrites]_vars

\* a 200 answer whose INSERT failed on a connected database that has the
\* table, after another request's row was written
C14_Witness ==
    /\ reply.endpoint = "chat"
    /\ reply.status = 200
    /\ db_pool # 0
    /\ chat_logs.exists
    /\ Cardinality(chat_logs.rows) = 1
    /\ \A row \in chat_logs.rows : row.n # reply.n

\* the title the i-th retrieved document contributes
C15_Title(i) ==
    IF reply.source_documents[1][i] = NoneValue THEN "CV Section"
    ELSE reply.source_documents[1][i][1]

\* the place of the first retrieved document that contributes the title x
C15_FirstOccurrence(x) ==
    CHOOSE i \in 1 .. Len(reply.source_documents[1]) :
        /\ C15_Title(i) = x
        /\ \A j \in 1 .. i - 1 : C15_Title(j) # x

\* C15: the sources of a successful /chat response are the deduplicated titles
\* of the retrieved documents: each title once, in order of first occurrence,
\* 'CV Section' for a document without a title, at most 4 entries since the
\* retriever returns at most 4 documents, and the empty list when the result
\* has no source_documents.
C15_Sources ==
    (reply.endpoint = "chat" /\ reply.status = 200) =>
        IF reply.source_documents = NoneValue THEN reply.sources = << >>
        ELSE LET docs == reply.source_documents[1]
                 s == reply.sources
             IN  /\ Len(docs) <= 4
                 /\ Len(docs) = IF Len(cv_embeddings) <= 4 THEN Len(cv_embeddings) ELSE 4
                 /\ Len(s) <= 4
                 /\ \A i, j \in 1 .. Len(s) : s[i] = s[j] => i = j
                 /\ {s[i] : i \in 1 .. Len(s)} = {C15_Title(i) : i \in 1 .. Len(docs)}
                 /\ \A i, j \in 1 .. Len(s) :
                       i < j => C15_FirstOccurrence(s[i]) < C15_FirstOccurrence(s[j])

\* four documents retrieved out of five, an untitled one first, each title twice
C15_Witness ==
    /\ reply.endpoint = "chat"
    /\ reply.status = 200
    /\ Len(cv_embeddings) = 5
    /\ reply.source_documents =
          Some(<<NoneValue, Some("A"), NoneValue, Some("A")>>)
    /\ reply.sources = <<"CV Section", "A">>

====
